---------------------------- MODULE Spec2Model ----------------------------
(***************************************************************************)
(* Load-in overlay of the site: the session flag hook (useSessionOnce),    *)
(* the price odometer (StockPriceOdometer / OdometerDigit) and the phase   *)
(* sequencer (LoadInOverlay).                                              *)
(*                                                                         *)
(* One browser tab session is modelled.  At most one overlay instance is   *)
(* on the page at a time; it can be unmounted and a new one rendered       *)
(* (navigation, reload) in the same session.  Time is in milliseconds and  *)
(* is kept relative: every pending timer or running animation carries the  *)
(* time that is left until it fires, the event with the least time left    *)
(* fires next and the time it waited is taken off all the others.          *)
(*                                                                         *)
(* React: the state updates a handler makes are batched, the component is  *)
(* rendered again and the effects whose dependencies changed are cleaned   *)
(* up and run again, all before the next event; every action below is a    *)
(* handler together with that commit.  useReducedMotion() is read once     *)
(* per instance; the props do not change during the life of an instance.   *)
(*                                                                         *)
(* The static file server of the site is modelled next to the overlay:     *)
(* its request handler is cut at its awaits (stat, readFile, compress),    *)
(* so that the handlers of several connections interleave there, and the   *)
(* served directory can change between the steps.                          *)
(***************************************************************************)
EXTENDS Integers, Sequences, FiniteSets

(* ------------------------------ bounds -------------------------------- *)

\* longest price string tried
MaxPriceLen == 3

\* characters a price string is made of
PriceChars == {"$", ".", "4"}

\* window.innerWidth, window.innerHeight tried (one per breakpoint)
Viewports == {<<320, 568>>, <<768, 1024>>, <<1280, 720>>}

\* window.innerWidth and window.innerHeight tried for computeGrid alone: the
\* values around each breakpoint and the smallest ones
GridWidths == {0, 1, 7, 8, 9, 320, 639, 640, 641, 1023, 1024, 1025, 1920}

GridHeights == {0, 1, 39, 40, 41, 568, 720, 1080}

(* ----------------------------- constants ------------------------------ *)

INTRO_HOLD == 400
ODOMETER_STAGGER == 70
ODOMETER_DURATION == 600
POST_PRICE_HOLD == 150
DAY_CHANGE_HOLD == 600
TEXT_FADE_DURATION == 200
TEXT_FADE_BUFFER == 30
BLOCK_STAGGER == 30
BLOCK_DROP_DURATION == 450
BLOCK_BUFFER == 120
REDUCED_MOTION_HOLD == 600

DIGIT_POOL == {"0", "1", "2", "3", "4", "5", "6", "7", "8", "9"}

Phases == <<"intro", "priceRoll", "dayChange", "fadeText", "blocks", "done">>

\* position of a phase in the declared order of the Phase type
PhaseRank(p) == CHOOSE i \in 1..Len(Phases) : Phases[i] = p

(* --------------------------- JS numbers ------------------------------- *)

\* a number that may not be finite: the result of a division, of parseInt
Num(n) == [t |-> "num", v |-> n]

NaN == [t |-> "NaN", v |-> 0]

Infinity == [t |-> "Infinity", v |-> 0]

IsFinite(x) == x.t = "num"

\* Math.ceil(a / b) for whole a >= 0, b >= 0
CeilOfQuotient(a, b) ==
  IF b = 0 THEN (IF a = 0 THEN NaN ELSE Infinity)
  ELSE Num(IF a % b = 0 THEN a \div b ELSE (a \div b) + 1)

\* x + n for a whole n
Plus(x, n) == IF IsFinite(x) THEN Num(x.v + n) ELSE x

\* x * n for a whole n >= 0
Times(x, n) ==
  IF IsFinite(x) THEN Num(x.v * n)
  ELSE IF x.t = "Infinity" /\ n > 0 THEN Infinity
  ELSE NaN

\* x >= n for a whole n (every comparison with NaN is false)
AtLeast(x, n) == (IsFinite(x) /\ x.v >= n) \/ x.t = "Infinity"

Null == [cols |-> 0, rows |-> Num(0), blockW |-> 0, blockH |-> 0, vh |-> 0]

(* ------------------------------- state -------------------------------- *)

VARIABLES
  storage,               \* sessionStorage value under SESSION_KEY: "null" or "1"
  storageMode,           \* "ok", "denied" (every access throws), "full" (setItem throws)
  thrown,                \* an exception escaped a handler of the overlay
  alive,                 \* an overlay instance exists (rendered, not unmounted)
  forceReplay,           \* prop
  stockPrice,            \* prop: sequence of characters
  prefersReducedMotion,  \* useReducedMotion() of the instance
  win,                   \* <<window.innerWidth, window.innerHeight>>
  sessionPlayed,         \* hasRun state of useSessionOnce
  mounted,               \* state
  phase,                 \* state
  grid,                  \* state (Null before the mount effect)
  timers,                \* pending setTimeout callbacks: [kind, rem, live]
  strips,                \* running OdometerDigit animations: [idx, rem, cb]
  falls,                 \* running block animations of BlockGrid: [r, c, rem]
  completions,           \* calls of handlePriceRollComplete in this instance
  lastBy,                \* digitIndex of the strip that called it last (-1: none)
  clock,                 \* ms since the mount effects of the instance ran
  flagAtMount,           \* sessionStorage held '1' when the mount effects ran
  everDone,              \* some instance of this session reached 'done'
  srvUp,                 \* the server process runs
  fileVer,               \* times the file that changes on disk was rewritten
  cache,                 \* the Map of compressed bodies: set of [key, val]
  conn                   \* per connection: the request and where its handler is

instVars == <<alive, forceReplay, stockPrice, prefersReducedMotion, win,
              sessionPlayed, mounted, phase, grid>>
vars == <<storage, storageMode, thrown, alive, forceReplay, stockPrice,
          prefersReducedMotion, win, sessionPlayed, mounted, phase, grid,
          timers, strips, falls, completions, lastBy, clock, flagAtMount,
          everDone, srvUp, fileVer, cache, conn>>

srvVars == <<srvUp, fileVer, cache, conn>>

\* the connections a client can have open at once
Conns == {"c1", "c2"}

NoStat == [size |-> 0, mtime |-> 0]
NoData == [path |-> << >>, ver |-> 0, len |-> 0]
NoBody == [kind |-> "empty", path |-> << >>, ver |-> 0, from |-> 0, to |-> 0]
NoRange == [unit |-> "", start |-> 0, end |-> 0, total |-> 0]
NoResp == [status |-> 0, body |-> NoBody, encoding |-> "", etag |-> << >>,
           contentRange |-> NoRange, contentLength |-> -1]

\* a connection without a request
IdleConn == [pc |-> "idle", url |-> << >>, range |-> << >>, inm |-> << >>,
             ae |-> << >>, st |-> NoStat, data |-> NoData, resp |-> NoResp,
             nresp |-> 0, fsOps |-> 0]

\* the server after listen(): nothing cached, no request yet
ServerIdle ==
  /\ srvUp = TRUE
  /\ fileVer = 0
  /\ cache = {}
  /\ conn = [c \in Conns |-> IdleConn]

(* ---------------------------- input sets ------------------------------ *)

RECURSIVE SeqsUpTo(_, _)
SeqsUpTo(S, n) ==
  IF n = 0 THEN {<< >>}
  ELSE LET shorter == SeqsUpTo(S, n - 1)
       IN  shorter \cup {Append(s, c) : s \in {x \in shorter : Len(x) = n - 1}, c \in S}

PriceStrings == SeqsUpTo(PriceChars, MaxPriceLen)

(* ------------------------------ helpers ------------------------------- *)

CeilDiv(a, b) == IF a % b = 0 THEN a \div b ELSE (a \div b) + 1

getColumnCount(w) == IF w < 640 THEN 8 ELSE IF w < 1024 THEN 12 ELSE 16

\* cols, blockW, blockH and vh are whole numbers; rows is h / blockH rounded
\* up plus one, which is not finite when blockH is 0
computeGrid(w, h) ==
  LET cols == getColumnCount(w)
      blockW == CeilDiv(w, cols)
      blockH == blockW
      rows == Plus(CeilOfQuotient(h, blockH), 1)
  IN  [cols |-> cols, rows |-> rows, blockW |-> blockW, blockH |-> blockH, vh |-> h]

parsePriceChars(price) ==
  [i \in 1..Len(price) |-> [char |-> price[i], isDigit |-> price[i] \in DIGIT_POOL]]

\* totalDigits of StockPriceOdometer
TotalDigits(chars) == Cardinality({i \in 1..Len(chars) : chars[i].isDigit})

\* the place of the character among all characters, taken as its digitIndex
DigitIndexAt_CharIndex(chars, i) == i - 1

\* value of the running digitIndex counter when character i is rendered
DigitIndexAt(chars, i) == Cardinality({j \in 1..(i - 1) : chars[j].isDigit})

\* onComplete given to the first digit instead of the last
IsLast_First(currentDigitIndex, totalDigits) == currentDigitIndex = 0

\* isLast of StockPriceOdometer: the strip that is given onComplete
IsLast(currentDigitIndex, totalDigits) == currentDigitIndex = totalDigits - 1

\* the animations the OdometerDigit children start when the odometer mounts
\* (pos: the place of the character in the price, from 1)
OdometerStrips(price) ==
  LET chars == parsePriceChars(price)
  IN  {[pos |-> i,
        idx |-> DigitIndexAt(chars, i),
        rem |-> ODOMETER_STAGGER * DigitIndexAt(chars, i) + ODOMETER_DURATION,
        cb  |-> IsLast(DigitIndexAt(chars, i), TotalDigits(chars))]
         : i \in {j \in 1..Len(chars) : chars[j].isDigit}}

(* --------------------------- useSessionOnce --------------------------- *)

\* sessionStorage.getItem(key): the value, or "throw"
GetItem(mode, value) == IF mode = "denied" THEN "throw" ELSE value

\* sessionStorage.setItem(key, '1'): the new value, or "throw"
SetItem(mode, value) == IF mode = "ok" THEN "1" ELSE "throw"

\* ReadEffect without its try/catch
ReadEffect_NoCatch(mode, value) ==
  LET r == GetItem(mode, value)
  IN  [hasRun |-> (r = "1"), escaped |-> (r = "throw")]

\* ReadEffect comparing the stored value with the wrong sentinel
ReadEffect_WrongSentinel(mode, value) ==
  LET r == GetItem(mode, value)
  IN  [hasRun |-> (r = "true"), escaped |-> FALSE]

\* ReadEffect that takes the flag as set whatever the storage holds
ReadEffect_AlwaysRun(mode, value) == [hasRun |-> TRUE, escaped |-> FALSE]

\* the mount effect of the hook: the new hasRun and whether an error escapes
ReadEffect(mode, value) ==
  LET r == GetItem(mode, value)
  IN  [hasRun |-> (r = "1"), escaped |-> FALSE]

\* markAsRun that sets the state but never writes the key
markAsRun_NoWrite(mode, value) ==
  [value |-> value, hasRun |-> TRUE, escaped |-> FALSE]

\* markAsRun: the new stored value, the new hasRun, whether an error escapes
markAsRun(mode, value) ==
  LET r == SetItem(mode, value)
  IN  [value   |-> IF r = "throw" THEN value ELSE r,
       hasRun  |-> TRUE,
       escaped |-> FALSE]

(* --------------------------- LoadInOverlay ---------------------------- *)

\* shouldAnimate without the session check
shouldAnimate_NoSessionCheck(m, fr, played) == m

shouldAnimate(m, fr, played) == m /\ (fr \/ ~played)

\* what the component returns
Render(m, sa, ph, prm) ==
  IF ~m THEN "placeholder"
  ELSE IF ~sa THEN "null"
  ELSE IF ph = "done" THEN "null"
  ELSE IF prm THEN "fallback"
  ELSE "full"

\* the full render shows <StockPriceOdometer>
OdometerRendered(m, sa, ph, prm) ==
  Render(m, sa, ph, prm) = "full" /\ ph \in {"priceRoll", "dayChange", "fadeText"}

\* the values of maxDiag below 100 for which the double arithmetic of
\* (maxDiag * 0.03 + 0.45) * 1000 + 120 ends just under the whole number
\* (22 gives 1229.9999999999998); setTimeout truncates the delay
TotalMsRoundsDown == {15, 22, 30, 37, 38, 39, 44, 45, 46, 47}

\* the blocks -> done timer without the diagonal of the grid
BlocksTotalMs_NoDiagonal(g) == BLOCK_DROP_DURATION + BLOCK_BUFFER

\* delay of the blocks -> done timer, in whole ms as setTimeout takes it
\* (a delay that is not finite is taken as 0)
BlocksTotalMs(g) ==
  LET maxDiag == (g.cols - 1) + (g.rows.v - 1)
      exact == maxDiag * BLOCK_STAGGER + BLOCK_DROP_DURATION + BLOCK_BUFFER
  IN  IF ~IsFinite(g.rows) THEN 0
      ELSE IF maxDiag \in TotalMsRoundsDown THEN exact - 1 ELSE exact

Timer(kind, delay) == [kind |-> kind, rem |-> delay, live |-> TRUE]

\* one useEffect: its dependencies before and after the render, the
\* condition under which it schedules its timer, and the timer
Effect(kind, depsOld, depsNew, cond, delay, pending) ==
  IF depsNew = depsOld
    THEN {t \in pending : t.kind = kind /\ t.live}
    ELSE IF cond THEN {Timer(kind, delay)} ELSE {}

\* the five timer effects of the component, run for a render that takes the
\* state from old to new (records of sa, phase, grid)
RunEffects(pending, old, new, prm) ==
  Effect("intro", <<old.sa, old.phase>>, <<new.sa, new.phase>>,
         new.sa /\ new.phase = "intro", INTRO_HOLD, pending)
  \cup Effect("dayChange", <<old.phase>>, <<new.phase>>,
         new.phase = "dayChange", DAY_CHANGE_HOLD, pending)
  \cup Effect("fadeText", <<old.phase>>, <<new.phase>>,
         new.phase = "fadeText", TEXT_FADE_DURATION + TEXT_FADE_BUFFER, pending)
  \cup Effect("blocks", <<old.phase, old.grid>>, <<new.phase, new.grid>>,
         new.phase = "blocks" /\ new.grid # Null, BlocksTotalMs(new.grid), pending)
  \cup Effect("reduced", <<old.sa, prm>>, <<new.sa, prm>>,
         new.sa /\ prm, REDUCED_MOTION_HOLD, pending)
  \cup {t \in pending : t.kind = "postPrice"}

\* the odometer's animations after the render
RunStrips(running, wasShown, isShown, price) ==
  IF isShown /\ ~wasShown THEN OdometerStrips(price)
  ELSE IF ~isShown THEN {}
  ELSE running

\* the full render shows <BlockGrid>
BlockGridRendered(m, sa, ph, prm, g) ==
  Render(m, sa, ph, prm) = "full" /\ ph = "blocks" /\ g # Null

\* the animations the blocks start when BlockGrid mounts: the block of
\* cell (r, c) waits (r + c) * BLOCK_STAGGER and falls for BLOCK_DROP_DURATION
BlockFalls(g) ==
  IF ~IsFinite(g.rows) THEN {}
  ELSE {[r |-> r, c |-> c, rem |-> (r + c) * BLOCK_STAGGER + BLOCK_DROP_DURATION]
          : r \in 0..(g.rows.v - 1), c \in 0..(g.cols - 1)}

\* the blocks' animations after the render
RunFalls(falling, wasShown, isShown, g) ==
  IF isShown /\ ~wasShown THEN BlockFalls(g)
  ELSE IF ~isShown THEN {}
  ELSE falling

\* cleanup of every effect on unmount
UnmountTimers(pending) ==
  {[t EXCEPT !.live = FALSE] : t \in {u \in pending : u.kind = "postPrice"}}

(* ------------------------------- time --------------------------------- *)

Pending == {t.rem : t \in timers} \cup {s.rem : s \in strips} \cup {f.rem : f \in falls}

IsNext(e) == \A r \in Pending : e.rem <= r

Elapse(S, d) == {[e EXCEPT !.rem = @ - d] : e \in S}

Cur == [sa |-> shouldAnimate(mounted, forceReplay, sessionPlayed),
        phase |-> phase, grid |-> grid]

(* ------------------------------ actions ------------------------------- *)

Init ==
  /\ storage = "null"
  /\ storageMode \in {"ok", "denied", "full"}
  /\ thrown = FALSE
  /\ alive = FALSE
  /\ forceReplay = FALSE
  /\ stockPrice = << >>
  /\ prefersReducedMotion = FALSE
  /\ win = <<320, 568>>
  /\ sessionPlayed = FALSE
  /\ mounted = FALSE
  /\ phase = "intro"
  /\ grid = Null
  /\ timers = {}
  /\ strips = {}
  /\ falls = {}
  /\ completions = 0
  /\ lastBy = -1
  /\ clock = 0
  /\ flagAtMount = FALSE
  /\ everDone = FALSE
  /\ ServerIdle

\* first render of a new instance: useState initial values
FirstRender ==
  /\ ~alive
  /\ alive' = TRUE
  /\ forceReplay' \in BOOLEAN
  /\ stockPrice' \in PriceStrings
  /\ prefersReducedMotion' \in BOOLEAN
  /\ win' \in Viewports
  /\ sessionPlayed' = FALSE
  /\ mounted' = FALSE
  /\ phase' = "intro"
  /\ grid' = Null
  /\ completions' = 0
  /\ lastBy' = -1
  /\ clock' = 0
  /\ flagAtMount' = FALSE
  /\ UNCHANGED <<storage, storageMode, thrown, timers, strips, falls, everDone>>
  /\ UNCHANGED srvVars

\* a state update and the commit that follows it
Commit(pending, running, falling, newPhase, newPlayed, newMounted, newGrid) ==
  LET new == [sa |-> shouldAnimate(newMounted, forceReplay, newPlayed),
              phase |-> newPhase, grid |-> newGrid]
  IN  /\ phase' = newPhase
      /\ sessionPlayed' = newPlayed
      /\ mounted' = newMounted
      /\ grid' = newGrid
      /\ timers' = RunEffects(pending, Cur, new, prefersReducedMotion)
      /\ strips' = RunStrips(running,
                      OdometerRendered(mounted, Cur.sa, phase, prefersReducedMotion),
                      OdometerRendered(newMounted, new.sa, newPhase, prefersReducedMotion),
                      stockPrice)
      /\ falls' = RunFalls(falling,
                     BlockGridRendered(mounted, Cur.sa, phase, prefersReducedMotion, grid),
                     BlockGridRendered(newMounted, new.sa, newPhase, prefersReducedMotion, newGrid),
                     newGrid)

\* the effects of the first render: the hook reads the flag, the component
\* sets mounted and grid
MountEffects ==
  /\ alive /\ ~mounted
  /\ LET r == ReadEffect(storageMode, storage)
     IN  /\ flagAtMount' = (storage = "1")
         /\ thrown' = (thrown \/ r.escaped)
         /\ Commit(timers, strips, falls, phase, r.hasRun, TRUE, computeGrid(win[1], win[2]))
  /\ clock' = 0
  /\ UNCHANGED <<storage, storageMode, alive, forceReplay, stockPrice,
                 prefersReducedMotion, win, completions, lastBy, everDone>>
  /\ UNCHANGED srvVars

Unmount ==
  /\ alive
  /\ alive' = FALSE
  /\ timers' = UnmountTimers(timers)
  /\ strips' = {}
  /\ falls' = {}
  /\ forceReplay' = FALSE
  /\ stockPrice' = << >>
  /\ prefersReducedMotion' = FALSE
  /\ win' = <<320, 568>>
  /\ sessionPlayed' = FALSE
  /\ mounted' = FALSE
  /\ phase' = "intro"
  /\ grid' = Null
  /\ completions' = 0
  /\ lastBy' = -1
  /\ clock' = 0
  /\ flagAtMount' = FALSE
  /\ UNCHANGED <<storage, storageMode, thrown, everDone>>
  /\ UNCHANGED srvVars

\* a timer of the live instance fires and sets the phase
PhaseTimer(kind, target) ==
  \E t \in timers :
    /\ t.kind = kind /\ t.live /\ IsNext(t)
    /\ Commit(Elapse(timers \ {t}, t.rem), Elapse(strips, t.rem),
              Elapse(falls, t.rem), target, sessionPlayed, mounted, grid)
    /\ clock' = clock + t.rem
    /\ UNCHANGED <<storage, storageMode, thrown, alive, forceReplay, stockPrice,
                   prefersReducedMotion, win, completions, lastBy, flagAtMount,
                   everDone>>
    /\ UNCHANGED srvVars

\* a timer of the live instance fires, sets the phase to 'done' and calls markPlayed
DoneTimer(kind) ==
  \E t \in timers :
    /\ t.kind = kind /\ t.live /\ IsNext(t)
    /\ LET m == markAsRun(storageMode, storage)
       IN  /\ storage' = m.value
           /\ thrown' = (thrown \/ m.escaped)
           /\ Commit(Elapse(timers \ {t}, t.rem), Elapse(strips, t.rem),
                     Elapse(falls, t.rem), "done", m.hasRun, mounted, grid)
    /\ clock' = clock + t.rem
    /\ everDone' = TRUE
    /\ UNCHANGED <<storageMode, alive, forceReplay, stockPrice,
                   prefersReducedMotion, win, completions, lastBy, flagAtMount>>
    /\ UNCHANGED srvVars

FireIntro == PhaseTimer("intro", "priceRoll")

FireDayChange == PhaseTimer("dayChange", "fadeText")

\* the fadeText timer setting the phase of the timer before it
FireFadeText_Back == PhaseTimer("fadeText", "dayChange")

FireFadeText == PhaseTimer("fadeText", "blocks")

FireBlocks == DoneTimer("blocks")

\* the reduced-motion timer without its markPlayed() call
FireReduced_NoMark == PhaseTimer("reduced", "done")

FireReduced == DoneTimer("reduced")

\* the timer of handlePriceRollComplete fires in the instance that set it
FirePostPrice == PhaseTimer("postPrice", "dayChange")

\* the same timer fires after its instance was unmounted: setPhase on an
\* unmounted component changes nothing
FirePostPriceStale ==
  \E t \in timers :
    /\ t.kind = "postPrice" /\ ~t.live /\ IsNext(t)
    /\ timers' = Elapse(timers \ {t}, t.rem)
    /\ strips' = Elapse(strips, t.rem)
    /\ falls' = Elapse(falls, t.rem)
    /\ clock' = IF alive /\ mounted THEN clock + t.rem ELSE clock
    /\ UNCHANGED <<storage, storageMode, thrown, instVars, completions, lastBy,
                   flagAtMount, everDone>>
    /\ UNCHANGED srvVars

\* the roll of one digit ends: onAnimationComplete
StripDone ==
  \E s \in strips :
    /\ IsNext(s)
    /\ strips' = Elapse(strips \ {s}, s.rem)
    /\ falls' = Elapse(falls, s.rem)
    /\ IF s.cb
         THEN /\ timers' = Elapse(timers, s.rem) \cup {Timer("postPrice", POST_PRICE_HOLD)}
              /\ completions' = completions + 1
              /\ lastBy' = s.idx
         ELSE /\ timers' = Elapse(timers, s.rem)
              /\ UNCHANGED <<completions, lastBy>>
    /\ clock' = clock + s.rem
    /\ UNCHANGED <<storage, storageMode, thrown, instVars, flagAtMount, everDone>>
    /\ UNCHANGED srvVars

\* the blocks whose fall ends next reach the bottom: their animations end
\* (at the same instant for the cells of one diagonal) and call nothing
BlocksLand ==
  \E f \in falls :
    /\ IsNext(f)
    /\ f = CHOOSE g \in falls : g.rem = f.rem
    /\ falls' = Elapse({g \in falls : g.rem # f.rem}, f.rem)
    /\ timers' = Elapse(timers, f.rem)
    /\ strips' = Elapse(strips, f.rem)
    /\ clock' = clock + f.rem
    /\ UNCHANGED <<storage, storageMode, thrown, instVars, completions, lastBy,
                   flagAtMount, everDone>>
    /\ UNCHANGED srvVars

Next ==
  \/ FirstRender
  \/ MountEffects
  \/ Unmount
  \/ FireIntro
  \/ StripDone
  \/ FirePostPrice
  \/ FirePostPriceStale
  \/ FireDayChange
  \/ FireFadeText
  \/ BlocksLand
  \/ FireBlocks
  \/ FireReduced

Spec == Init /\ [][Next]_vars

\* timers that are due fire, animations that run end, effects run after the
\* render; nothing makes the page render or unmount the overlay
Fairness ==
  /\ WF_vars(MountEffects)
  /\ WF_vars(FireIntro)
  /\ WF_vars(StripDone)
  /\ WF_vars(FirePostPrice)
  /\ WF_vars(FirePostPriceStale)
  /\ WF_vars(FireDayChange)
  /\ WF_vars(FireFadeText)
  /\ WF_vars(BlocksLand)
  /\ WF_vars(FireBlocks)
  /\ WF_vars(FireReduced)

FairSpec == Spec /\ Fairness

(* -------------------------- computeGrid alone -------------------------- *)

\* no overlay instance, empty session storage
OverlayIdle ==
  /\ storage = "null"
  /\ storageMode = "ok"
  /\ thrown = FALSE
  /\ alive = FALSE
  /\ forceReplay = FALSE
  /\ stockPrice = << >>
  /\ prefersReducedMotion = FALSE
  /\ sessionPlayed = FALSE
  /\ mounted = FALSE
  /\ phase = "intro"
  /\ timers = {}
  /\ strips = {}
  /\ falls = {}
  /\ completions = 0
  /\ lastBy = -1
  /\ clock = 0
  /\ flagAtMount = FALSE
  /\ everDone = FALSE

overlayRest == <<storage, storageMode, thrown, alive, forceReplay, stockPrice,
                 prefersReducedMotion, sessionPlayed, mounted, phase, timers,
                 strips, falls, completions, lastBy, clock, flagAtMount,
                 everDone>>

GridInit ==
  /\ OverlayIdle
  /\ ServerIdle
  /\ win \in GridWidths \X GridHeights
  /\ grid = Null

\* setGrid(computeGrid()) for the window as it is
ApplyComputeGrid ==
  /\ grid = Null
  /\ grid' = computeGrid(win[1], win[2])
  /\ UNCHANGED <<win, overlayRest, srvVars>>

\* the window gets another size before the next computeGrid()
Resize ==
  /\ grid # Null
  /\ win' \in GridWidths \X GridHeights
  /\ grid' = Null
  /\ UNCHANGED <<overlayRest, srvVars>>

GridNext == ApplyComputeGrid \/ Resize

GridSpec == GridInit /\ [][GridNext]_vars

(* ---------------------------- static server --------------------------- *)

\* A URL, a header value or a path is a sequence of tokens: "/", ".", "?",
\* "-", ",", a digit, a name (letters only), "%2e" (the escape of "."),
\* "%zz" (an escape that is not valid).

\* times the changing file is rewritten
MaxVersion == 1

COMPRESS_MIN == 1024
DEFAULT_CHUNK == 1024 * 1024

P_index == <<"/", "index", ".", "html">>
P_app == <<"/", "app", ".", "js">>
P_style == <<"/", "style", ".", "css">>
P_logo == <<"/", "logo", ".", "png">>
P_video == <<"/", "intro", ".", "mp4">>
P_clip == <<"/", "clip", ".", "webm">>
P_assets == <<"/", "assets">>

\* the file that is rewritten while the server runs
ChangingFile == P_app

\* the served directory after the changing file was rewritten ver times
Disk(ver) ==
  { [path |-> P_index,  dir |-> FALSE, size |-> 5000,    mtime |-> 1700],
    [path |-> P_app,    dir |-> FALSE, size |-> 1025,    mtime |-> 1800 + ver],
    [path |-> P_style,  dir |-> FALSE, size |-> 1024,    mtime |-> 1900],
    [path |-> P_logo,   dir |-> FALSE, size |-> 4000,    mtime |-> 2000],
    [path |-> P_video,  dir |-> FALSE, size |-> 3000000, mtime |-> 2100],
    [path |-> P_clip,   dir |-> FALSE, size |-> 500,     mtime |-> 2200],
    [path |-> P_assets, dir |-> TRUE,  size |-> 4096,    mtime |-> 2300],
    [path |-> <<"/">>,  dir |-> TRUE,  size |-> 4096,    mtime |-> 2400] }

STREAMABLE == {<<".", "mp4">>, <<".", "webm">>}

COMPRESSIBLE == {<<".", "html">>, <<".", "css">>, <<".", "js">>, <<".", "mjs">>,
                 <<".", "json">>, <<".", "svg">>}

\* includes() that finds nothing
includes_Never(s, sub) == FALSE

\* s.includes(sub)
includes(s, sub) ==
  \E i \in 1..(Len(s) - Len(sub) + 1) : SubSeq(s, i, i + Len(sub) - 1) = sub

\* s.indexOf(tok), from 1; 0 when tok is not in s
indexOf(s, tok) ==
  LET I == {i \in 1..Len(s) : s[i] = tok}
  IN  IF I = {} THEN 0 ELSE CHOOSE i \in I : \A j \in I : i <= j

\* s.lastIndexOf(tok), from 1; 0 when tok is not in s
lastIndexOf(s, tok) ==
  LET I == {i \in 1..Len(s) : s[i] = tok}
  IN  IF I = {} THEN 0 ELSE CHOOSE i \in I : \A j \in I : i >= j

\* s.split(tok)[0]
splitFirst(s, tok) ==
  IF indexOf(s, tok) = 0 THEN s ELSE SubSeq(s, 1, indexOf(s, tok) - 1)

\* s.split(tok)[1]: << >> stands for undefined as well as for ''
splitSecond(s, tok) ==
  IF indexOf(s, tok) = 0 THEN << >>
  ELSE splitFirst(SubSeq(s, indexOf(s, tok) + 1, Len(s)), tok)

\* s.replace(/tok/, '')
removeFirst(s, tok) ==
  IF indexOf(s, tok) = 0 THEN s
  ELSE SubSeq(s, 1, indexOf(s, tok) - 1) \o SubSeq(s, indexOf(s, tok) + 1, Len(s))

URIError == <<"URIError">>

\* decodeURIComponent(s): the decoded tokens, or URIError when it throws
decodeURIComponent(s) ==
  IF \E i \in 1..Len(s) : s[i] = "%zz" THEN URIError
  ELSE [i \in 1..Len(s) |-> IF s[i] = "%2e" THEN "." ELSE s[i]]

\* join(__dirname, url), as a path under the served directory: empty and
\* "." segments are dropped
RECURSIVE join(_)
join(s) ==
  IF Len(s) < 2 THEN s
  ELSE IF s[1] = "/" /\ s[2] = "/" THEN join(Tail(s))
  ELSE IF s[1] = "/" /\ s[2] = "." /\ (Len(s) = 2 \/ s[3] = "/")
    THEN join(<<"/">> \o SubSeq(s, 4, Len(s)))
  ELSE <<s[1]>> \o join(Tail(s))

\* extname(path): from the last "." of the last segment, unless the segment
\* starts with it
extname(path) ==
  LET base == SubSeq(path, lastIndexOf(path, "/") + 1, Len(path))
      dot == lastIndexOf(base, ".")
  IN  IF dot <= 1 THEN << >> ELSE SubSeq(base, dot, Len(base))

DecimalDigits == <<"0", "1", "2", "3", "4", "5", "6", "7", "8", "9">>

HexDigits == DecimalDigits \o <<"a", "b", "c", "d", "e", "f">>

\* n.toString(16)
RECURSIVE toString16(_)
toString16(n) ==
  IF n < 16 THEN <<HexDigits[n + 1]>>
  ELSE toString16(n \div 16) \o <<HexDigits[(n % 16) + 1]>>

\* String(n) for a whole number
RECURSIVE toString10(_)
toString10(n) ==
  IF n < 10 THEN <<DecimalDigits[n + 1]>>
  ELSE toString10(n \div 10) \o <<DecimalDigits[(n % 10) + 1]>>

IsDecimalDigit(tok) == \E d \in 1..10 : DecimalDigits[d] = tok

RECURSIVE DigitsValue(_)
DigitsValue(s) ==
  IF s = << >> THEN 0
  ELSE DigitsValue(SubSeq(s, 1, Len(s) - 1)) * 10
         + (CHOOSE d \in 0..9 : DecimalDigits[d + 1] = s[Len(s)])

\* parseInt(s, 10): the number its leading digits spell, NaN without any
parseInt(s) ==
  LET k == Cardinality({i \in 1..Len(s) : \A j \in 1..i : IsDecimalDigit(s[j])})
  IN  IF k = 0 THEN NaN ELSE Num(DigitsValue(SubSeq(s, 1, k)))

\* Math.min(x, n)
MathMin(x, n) ==
  IF IsFinite(x) THEN Num(IF x.v < n THEN x.v ELSE n)
  ELSE IF x.t = "Infinity" THEN Num(n)
  ELSE NaN

\* a - b + 1 on numbers
SpanOf(a, b) == IF IsFinite(a) /\ IsFinite(b) THEN Num(b.v - a.v + 1) ELSE NaN

\* await stat(filePath) on the directory as it is
stat(path, ver) ==
  LET E == {f \in Disk(ver) : f.path = path}
  IN  IF E = {} THEN [ok |-> FALSE, dir |-> FALSE, size |-> 0, mtime |-> 0]
      ELSE LET f == CHOOSE f \in E : TRUE
           IN  [ok |-> TRUE, dir |-> f.dir, size |-> f.size, mtime |-> f.mtime]

\* the bytes of a file: which file, and which rewrite of it
Content(path, ver) ==
  [path |-> path, ver |-> IF path = ChangingFile THEN ver ELSE 0,
   len |-> stat(path, ver).size]

\* await readFile(filePath) on the directory as it is
readFile(path, ver) ==
  LET s == stat(path, ver)
  IN  IF s.ok /\ ~s.dir THEN [ok |-> TRUE, data |-> Content(path, ver)]
      ELSE [ok |-> FALSE, data |-> NoData]

\* '"' + size.toString(16) + '-' + mtimeMs.toString(16) + '"'
ETag(st) ==
  <<"\"">> \o toString16(st.size) \o <<"-">> \o toString16(st.mtime) \o <<"\"">>

\* brotliAsync(data) / gzipAsync(data)
Compress(alg, data) ==
  [kind |-> alg, path |-> data.path, ver |-> data.ver, from |-> 0, to |-> 0]

Plain(data) ==
  [kind |-> "plain", path |-> data.path, ver |-> data.ver, from |-> 0, to |-> 0]

Text(t) == [kind |-> "text", path |-> <<t>>, ver |-> 0, from |-> 0, to |-> 0]

\* the bytes createReadStream(filePath, {start, end}) pipes: they stop at
\* the end of the file
Bytes(path, ver, start, end, total) ==
  [kind |-> "bytes", path |-> path, ver |-> Content(path, ver).ver,
   from |-> start, to |-> IF end < total - 1 THEN end ELSE total - 1]

\* a start that ignores the Range header
RangeStart_Zero(range, total) == Num(0)

\* the start and end the streaming branch takes from the Range header
RangeStart(range, total) == parseInt(splitFirst(removeFirst(range, "bytes="), "-"))

RangeEnd(range, total) ==
  LET second == splitSecond(removeFirst(range, "bytes="), "-")
  IN  IF second # << >> THEN parseInt(second)
      ELSE MathMin(Plus(RangeStart(range, total), DEFAULT_CHUNK - 1), total - 1)

\* createReadStream(filePath, {start, end}) throws ERR_OUT_OF_RANGE
StreamThrows(start, end) ==
  ~IsFinite(start) \/ ~IsFinite(end) \/ start.v > end.v

\* the coding the handler picks from Accept-Encoding, 'br' first
PickEncoding(ae) ==
  IF includes(ae, <<"br">>) THEN "br"
  ELSE IF includes(ae, <<"gzip">>) THEN "gzip"
  ELSE ""

\* what the handler makes of req.url before it looks at the disk
RequestUrl(url) == IF url = <<"/">> THEN P_index ELSE url

DecodedUrl(url) == decodeURIComponent(splitFirst(RequestUrl(url), "?"))

FilePath(url) == join(DecodedUrl(url))

CacheKey(path, mtime, alg) == <<path, mtime, alg>>

CacheHas(k) == \E e \in cache : e.key = k

CacheGet(k) == (CHOOSE e \in cache : e.key = k).val

CacheSet(k, v) == {e \in cache : e.key # k} \cup {[key |-> k, val |-> v]}

(* requests tried *)

BytesFrom(n) == <<"bytes=">> \o toString10(n) \o <<"-">>

RangeStarts == {0, 499, 500, 1951424, 1951425, 2999999, 3000000}

Urls ==
  { <<"/">>, P_app, P_style, P_logo, P_video, P_clip, P_assets,
    <<"/", "missing", ".", "js">>,
    <<"/", "?", "x">>,
    <<"/", ".", "/", "app", ".", "js">>,
    <<"/", "app", ".", "js", "?", "v", ".", ".">>,
    <<"/", ".", ".", "/", "secret">>,
    <<"/", "assets", "/", ".", ".", "/", "app", ".", "js">>,
    <<"/", "%2e", "%2e", "/", "app", ".", "js">>,
    <<"/", "%zz">> }

Ranges ==
  { << >> } \cup {BytesFrom(n) : n \in RangeStarts} \cup
  { <<"bytes=", "5", "-", "9">>,
    <<"bytes=", "9", "-", "5">>,
    <<"bytes=", "-", "5", "0", "0">>,
    <<"bytes=", "x", "-">> }

\* no header, the validators of app.js, index.html and intro.mp4 as the
\* server writes them, and one that matches no file
IfNoneMatches ==
  { << >>,
    <<"\"", "4", "0", "1", "-", "7", "0", "8", "\"">>,
    <<"\"", "1", "3", "8", "8", "-", "6", "a", "4", "\"">>,
    <<"\"", "2", "d", "c", "6", "c", "0", "-", "8", "3", "4", "\"">>,
    <<"\"", "0", "\"">> }

AcceptEncodings ==
  { << >>,
    <<"identity">>,
    <<"gzip">>,
    <<"br">>,
    <<"gzip", ",", "br">>,
    <<"gzip", ",", "br", ";q=0">> }

RaceUrls == {<<"/">>, P_app}

RaceEncodings == {<<"br">>, <<"gzip">>}

(* the handler *)

overlayVars == <<win, grid, overlayRest>>

Resp(status, body, encoding, etag) ==
  [status |-> status, body |-> body, encoding |-> encoding, etag |-> etag,
   contentRange |-> NoRange, contentLength |-> -1]

\* res.writeHead(...); res.end(...) or pipe(res): the request is answered
Answered(cn, r) == [cn EXCEPT !.pc = "answered", !.resp = r, !.nresp = @ + 1]

\* an exception leaves the async handler.  The rejection is unhandled: the
\* process exits (and every request in flight is lost with it), or it only
\* warns and the request is never answered
Escapes(c, cn) ==
  \E outcome \in {"exit", "hang"} :
    IF outcome = "exit"
      THEN /\ srvUp' = FALSE
           /\ conn' = [d \in Conns |->
                IF d = c THEN [cn EXCEPT !.pc = "lost"]
                ELSE IF conn[d].pc \in {"stat", "read", "compress"}
                  THEN [conn[d] EXCEPT !.pc = "lost"]
                ELSE conn[d]]
      ELSE /\ srvUp' = srvUp
           /\ conn' = [conn EXCEPT ![c] = [cn EXCEPT !.pc = "hung"]]

\* a request arrives: lines 39-47, up to the await of stat
Receive(c, urls, ranges, inms, aes) ==
  /\ srvUp
  /\ conn[c].pc = "idle"
  /\ \E u \in urls, r \in ranges, m \in inms, a \in aes :
       LET cn == [IdleConn EXCEPT !.url = u, !.range = r, !.inm = m, !.ae = a]
       IN  IF DecodedUrl(u) = URIError
             THEN Escapes(c, cn)
           ELSE IF includes(DecodedUrl(u), <<".", ".">>)
             THEN /\ conn' = [conn EXCEPT ![c] = Answered(cn, Resp(403, Text("Forbidden"), "", << >>))]
                  /\ srvUp' = srvUp
           ELSE /\ conn' = [conn EXCEPT ![c] = [cn EXCEPT !.pc = "stat"]]
                /\ srvUp' = srvUp
  /\ UNCHANGED <<fileVer, cache, overlayVars>>

\* the streaming branch, lines 51-74
Stream(c, cn, path, st) ==
  LET total == st.size
      start == RangeStart(cn.range, total)
      end == RangeEnd(cn.range, total)
  IN  IF cn.range # << >>
        THEN IF StreamThrows(start, end)
               \* writeHead(206) was called: writeHead(404) in the catch throws
               THEN Escapes(c, [cn EXCEPT !.fsOps = @ + 1])
               ELSE /\ conn' = [conn EXCEPT ![c] =
                         Answered([cn EXCEPT !.fsOps = @ + 1],
                           [status |-> 206,
                            body |-> Bytes(path, fileVer, start.v, end.v, total),
                            encoding |-> "", etag |-> << >>,
                            contentRange |-> [unit |-> "bytes", start |-> start.v,
                                              end |-> end.v, total |-> total],
                            contentLength |-> SpanOf(start, end).v])]
                    /\ srvUp' = srvUp
        ELSE /\ conn' = [conn EXCEPT ![c] =
                  Answered([cn EXCEPT !.fsOps = @ + 1],
                    [status |-> 200,
                     body |-> Bytes(path, fileVer, 0, total - 1, total),
                     encoding |-> "", etag |-> << >>,
                     contentRange |-> NoRange,
                     contentLength |-> total])]
             /\ srvUp' = srvUp

\* stat() settles: lines 47-76, up to the await of readFile
StatDone(c) ==
  /\ srvUp
  /\ conn[c].pc = "stat"
  /\ LET path == FilePath(conn[c].url)
         st == stat(path, fileVer)
         cn == [conn[c] EXCEPT !.fsOps = @ + 1,
                               !.st = [size |-> st.size, mtime |-> st.mtime]]
     IN  IF ~st.ok
           THEN /\ conn' = [conn EXCEPT ![c] = Answered(cn, Resp(404, Text("Not found"), "", << >>))]
                /\ srvUp' = srvUp
         ELSE IF extname(path) \in STREAMABLE
           THEN Stream(c, cn, path, st)
         ELSE /\ conn' = [conn EXCEPT ![c] = [cn EXCEPT !.pc = "read"]]
              /\ srvUp' = srvUp
  /\ UNCHANGED <<fileVer, cache, overlayVars>>

\* the comparison with If-None-Match that never matches
IfNoneMatchHit_Never(inm, etag) == FALSE

\* req.headers['if-none-match'] === etag
IfNoneMatchHit(inm, etag) == inm = etag

\* readFile() settles: lines 76-110, up to the await of the compression
ReadDone(c) ==
  /\ srvUp
  /\ conn[c].pc = "read"
  /\ LET path == FilePath(conn[c].url)
         rf == readFile(path, fileVer)
         cn == [conn[c] EXCEPT !.fsOps = @ + 1, !.data = rf.data]
         etag == ETag(cn.st)
         alg == PickEncoding(cn.ae)
         key == CacheKey(path, cn.st.mtime, alg)
     IN  conn' = [conn EXCEPT ![c] =
           IF ~rf.ok
             THEN Answered(cn, Resp(404, Text("Not found"), "", << >>))
           ELSE IF IfNoneMatchHit(cn.inm, etag)
             THEN Answered(cn, Resp(304, NoBody, "", etag))
           ELSE IF extname(path) \in COMPRESSIBLE /\ cn.data.len > COMPRESS_MIN /\ alg # ""
             THEN IF CacheHas(key)
                    THEN Answered(cn, Resp(200, CacheGet(key), alg, etag))
                    ELSE [cn EXCEPT !.pc = "compress"]
           ELSE Answered(cn, Resp(200, Plain(cn.data), "", etag))]
  /\ UNCHANGED <<srvUp, fileVer, cache, overlayVars>>

\* the compression settles: cache.set(...), then the response with cache.get(...)
CompressDone(c) ==
  /\ srvUp
  /\ conn[c].pc = "compress"
  /\ LET cn == conn[c]
         alg == PickEncoding(cn.ae)
         key == CacheKey(FilePath(cn.url), cn.st.mtime, alg)
         stored == CacheSet(key, Compress(alg, cn.data))
     IN  /\ cache' = stored
         /\ conn' = [conn EXCEPT ![c] =
              Answered(cn, Resp(200, (CHOOSE e \in stored : e.key = key).val, alg, ETag(cn.st)))]
  /\ UNCHANGED <<srvUp, fileVer, overlayVars>>

\* the client has the response and the connection takes the next request
Close(c) ==
  /\ conn[c].pc = "answered"
  /\ conn' = [conn EXCEPT ![c] = IdleConn]
  /\ UNCHANGED <<srvUp, fileVer, cache, overlayVars>>

\* the changing file is rewritten on disk
Modify ==
  /\ fileVer < MaxVersion
  /\ fileVer' = fileVer + 1
  /\ UNCHANGED <<srvUp, cache, conn, overlayVars>>

ServerInit ==
  /\ OverlayIdle
  /\ win = <<320, 568>>
  /\ grid = Null
  /\ ServerIdle

\* one connection, one request at a time, any request
AnyRequest == Receive("c1", Urls, Ranges, IfNoneMatches, AcceptEncodings)

ServerNext ==
  \/ AnyRequest
  \/ StatDone("c1")
  \/ ReadDone("c1")
  \/ CompressDone("c1")
  \/ Close("c1")

ServerSpec == ServerInit /\ [][ServerNext]_vars

\* two connections with requests for compressible files, and the file
\* that changes
RaceRequest(c) == Receive(c, RaceUrls, {<< >>}, {<< >>}, RaceEncodings)

RaceNext ==
  \/ \E c \in Conns : RaceRequest(c)
  \/ \E c \in Conns : StatDone(c)
  \/ \E c \in Conns : ReadDone(c)
  \/ \E c \in Conns : CompressDone(c)
  \/ \E c \in Conns : Close(c)
  \/ Modify

RaceSpec == ServerInit /\ [][RaceNext]_vars

(* ------------------------------ claims -------------------------------- *)

Sa == shouldAnimate(mounted, forceReplay, sessionPlayed)

Shown == Render(mounted, Sa, phase, prefersReducedMotion)

LiveTimers == {t \in timers : t.live}

OdometerShown == OdometerRendered(mounted, Sa, phase, prefersReducedMotion)

\* C1: an instance mounted without forceReplay while the storage key holds
\* '1' renders nothing after its mount effects, never has a timer or an
\* animation of its own and stays in 'intro'; and whenever an instance has a
\* timer pending or has left 'intro', it is mounted and (forceReplay or the
\* flag was not set when it mounted).
C1_NoReplayWhenFlagSet ==
  /\ (alive /\ mounted /\ ~forceReplay /\ flagAtMount)
       => (Shown = "null" /\ LiveTimers = {} /\ strips = {} /\ phase = "intro")
  /\ (alive /\ (LiveTimers # {} \/ strips # {} \/ phase # "intro"))
       => (mounted /\ (forceReplay \/ ~flagAtMount))

C1_Witness ==
  alive /\ mounted /\ ~forceReplay /\ flagAtMount /\ storage = "1" /\ Shown = "null"

\* the instance is mounted with forceReplay and plays the full animation
Forced == alive /\ mounted /\ forceReplay /\ ~prefersReducedMotion

\* C2: an instance mounted with forceReplay (reduced motion off) that stays
\* mounted goes through intro, priceRoll, dayChange, fadeText, blocks, done:
\* from each phase it eventually reaches the next one.
C2_FullSequence ==
  /\ (Forced /\ phase = "intro") ~> (~alive \/ phase = "priceRoll")
  /\ (Forced /\ phase = "priceRoll") ~> (~alive \/ phase = "dayChange")
  /\ (Forced /\ phase = "dayChange") ~> (~alive \/ phase = "fadeText")
  /\ (Forced /\ phase = "fadeText") ~> (~alive \/ phase = "blocks")
  /\ (Forced /\ phase = "blocks") ~> (~alive \/ phase = "done")

\* C3: while the odometer is shown, onComplete has fired at most once, only
\* from the strip of the last digit and only once no strip is still rolling;
\* and once no strip is rolling it has fired exactly once.
C3_CompletesExactlyOnce ==
  OdometerShown =>
    /\ completions <= 1
    /\ completions = 1 =>
         (strips = {} /\ lastBy = TotalDigits(parsePriceChars(stockPrice)) - 1)
    /\ strips = {} => completions = 1

\* C4: between two states of the same instance the phase never moves back in
\* the order intro < priceRoll < dayChange < fadeText < blocks < done (so
\* nothing changes it once it is 'done').
C4_PhaseNeverGoesBack ==
  [][(alive /\ alive') => PhaseRank(phase') >= PhaseRank(phase)]_vars

C4_Witness == alive /\ phase = "done" /\ forceReplay /\ ~prefersReducedMotion

\* C5: phase = 'done' implies that sessionPlayed is true and, when session
\* storage is writable, that the key holds '1'.
C5_DoneImpliesMarked ==
  (alive /\ phase = "done")
    => (sessionPlayed /\ (storageMode = "ok" => storage = "1"))

C5_Witness ==
  alive /\ phase = "done" /\ storageMode = "ok" /\ storage = "1" /\ sessionPlayed

\* an instance without forceReplay that is mounted after another instance of
\* the session has reached 'done' (it has not reached 'done' itself)
MountedAfterDone == everDone /\ alive /\ mounted /\ ~forceReplay /\ phase # "done"

NeverStarted == phase = "intro" /\ Shown = "null" /\ LiveTimers = {} /\ strips = {}

\* C6 as stated: once an instance has reached 'done', an instance mounted
\* later without forceReplay never starts the phase machine.
C6_Original == MountedAfterDone => NeverStarted

\* C6: when session storage can be read and written, an instance mounted
\* without forceReplay after some instance of the session has reached 'done'
\* never starts the phase machine and renders nothing.
C6_NoReplayAfterDone == (MountedAfterDone /\ storageMode = "ok") => NeverStarted

C6_Witness == MountedAfterDone /\ storageMode = "ok" /\ NeverStarted

\* C7: with reduced motion preferred, an instance that should animate and
\* stays mounted is in 'done' 600 ms after its mount effects, with the flag
\* marked.
C7_ReducedMotionDone ==
  (alive /\ mounted /\ prefersReducedMotion /\ Sa /\ phase # "done")
    ~> \/ ~alive
       \/ /\ phase = "done" /\ clock = 600
          /\ sessionPlayed /\ (storageMode = "ok" => storage = "1")

C7_Witness ==
  alive /\ prefersReducedMotion /\ phase = "done" /\ clock = 600 /\ sessionPlayed

\* C8: with reduced motion preferred the instance has no timer of the normal
\* sequence and its phase is 'intro' or 'done'.
C8_Bypassed ==
  (alive /\ prefersReducedMotion)
    => /\ phase \in {"intro", "done"}
       /\ \A t \in LiveTimers : t.kind = "reduced"

\* the phase in which a timer of the normal sequence is set
ScheduledIn(kind) == IF kind = "postPrice" THEN "priceRoll" ELSE kind

\* C9: every pending timer belongs to the mounted instance and, for the
\* timers of the phases, the phase is still the one that set it.
C9_TimersCancelled ==
  \A t \in timers :
    /\ t.live /\ alive
    /\ t.kind # "reduced" => phase = ScheduledIn(t.kind)

\* C10 as stated: no error escapes the hook and, while storage is
\* inaccessible, hasRun is false in every state.
C10_Original ==
  /\ ~thrown
  /\ (alive /\ storageMode = "denied") => ~sessionPlayed

\* C10: no error escapes the hook when reading or writing throws; a write
\* that throws stores nothing; and while storage is inaccessible hasRun is
\* false until markAsRun is called (the instance reaches 'done'), true after.
C10_FailsOpen ==
  /\ ~thrown
  /\ storageMode # "ok" => storage = "null"
  /\ (alive /\ storageMode = "denied") => (sessionPlayed <=> phase = "done")

C10_Witness ==
  alive /\ storageMode = "denied" /\ phase = "done" /\ sessionPlayed /\ ~thrown

\* the grid was computed for the window as it is
GridComputed == ~alive /\ grid # Null

\* C18: for every window width w and height h, computeGrid gives cols > 0 and
\* a finite rows > 0 with cols * blockW >= w and rows * blockH >= h + blockH,
\* cols being 8 below 640, 12 below 1024 and 16 from there on.
C18_GridCoversViewport ==
  GridComputed =>
    /\ grid.cols > 0
    /\ IsFinite(grid.rows) /\ grid.rows.v > 0
    /\ grid.cols * grid.blockW >= win[1]
    /\ AtLeast(Times(grid.rows, grid.blockH), win[2] + grid.blockH)
    /\ grid.cols = (IF win[1] < 640 THEN 8 ELSE IF win[1] < 1024 THEN 12 ELSE 16)

\* the same for the windows that are at least one pixel wide
C18_PositiveWidth == (GridComputed /\ win[1] >= 1) => C18_GridCoversViewport

\* the places of the digit characters of the price
DigitPlaces == {i \in 1..Len(stockPrice) : stockPrice[i] \in DIGIT_POOL}

\* the odometer has just mounted: the intro hold ended and no time passed since
OdometerJustMounted ==
  alive /\ mounted /\ ~prefersReducedMotion /\ phase = "priceRoll" /\ clock = INTRO_HOLD

\* C19: when the odometer mounts, it starts one animated strip per digit
\* character and none for any other character; the k-th digit from the left
\* (from 0) has digitIndex k and the start delay ODOMETER_STAGGER * k, so the
\* strips start in order from left to right
C19_OneStripPerDigit ==
  OdometerJustMounted =>
    /\ Cardinality(strips) = Cardinality(DigitPlaces)
    /\ {s.pos : s \in strips} = DigitPlaces
    /\ {s.idx : s \in strips} = 0..(Cardinality(DigitPlaces) - 1)
    /\ \A s \in strips : s.rem - ODOMETER_DURATION = ODOMETER_STAGGER * s.idx
    /\ \A s, t \in strips :
         s.pos < t.pos => (s.idx < t.idx /\ s.rem < t.rem)

\* a price with two digits around a character that is not a digit has mounted
C19_Witness ==
  /\ OdometerJustMounted
  /\ Len(stockPrice) = 3
  /\ DigitPlaces = {1, 3}
  /\ Cardinality(strips) = 2

\* the time at which the strip of the last digit ends its roll
LastRollEnds ==
  INTRO_HOLD + ODOMETER_STAGGER * (Cardinality(DigitPlaces) - 1) + ODOMETER_DURATION

\* C20: the phase goes to 'dayChange' only from 'priceRoll', only after the
\* completion callback of the odometer fired, and POST_PRICE_HOLD ms after
\* the last digit ended its roll; while the roll has not completed, no timer
\* that would set 'dayChange' is pending in the instance
C20_DayChangeAfterRoll ==
  /\ [][(phase' = "dayChange" /\ phase # "dayChange") =>
          /\ phase = "priceRoll"
          /\ completions = 1
          /\ lastBy = Cardinality(DigitPlaces) - 1
          /\ clock' = LastRollEnds + POST_PRICE_HOLD]_vars
  /\ [](completions = 0 => ~\E t \in timers : t.kind = "postPrice" /\ t.live)

\* a price of two digits reached 'dayChange'
C20_Witness ==
  /\ alive /\ phase = "dayChange"
  /\ Cardinality(DigitPlaces) = 2
  /\ completions = 1
  /\ clock = LastRollEnds + POST_PRICE_HOLD

\* the overlay shows the falling blocks
InBlocks == alive /\ phase = "blocks" /\ Shown = "full" /\ grid # Null

\* the time at which the phase became 'blocks', and the time since
BlocksStart ==
  LastRollEnds + POST_PRICE_HOLD + DAY_CHANGE_HOLD + TEXT_FADE_DURATION + TEXT_FADE_BUFFER

SinceBlocks == clock - BlocksStart

\* ((cols-1)+(rows-1)) * stagger + drop duration + buffer, in ms
StatedTotalMs == ((grid.cols - 1) + (grid.rows.v - 1)) * BLOCK_STAGGER
                   + BLOCK_DROP_DURATION + BLOCK_BUFFER

\* the time after the start of 'blocks' at which the fall of cell (r, c) ends
FallEnds(r, c) == (r + c) * BLOCK_STAGGER + BLOCK_DROP_DURATION

\* every cell of the grid has its fall, started after (r+c) * stagger and
\* lasting the drop duration, and the fall ends before the timer of total ms
CellsFallBefore(total) ==
  \A r \in 0..(grid.rows.v - 1), c \in 0..(grid.cols - 1) :
    /\ FallEnds(r, c) < total
    /\ SinceBlocks < FallEnds(r, c) =>
         \E f \in falls : f.r = r /\ f.c = c /\ f.rem = FallEnds(r, c) - SinceBlocks
    /\ SinceBlocks > FallEnds(r, c) => ~\E f \in falls : f.r = r /\ f.c = c

\* C21 as stated: the blocks -> done timer lasts exactly
\* ((cols-1)+(rows-1)) * stagger + drop duration + buffer ms, and the fall
\* of every cell has ended before it fires
C21_Original ==
  InBlocks =>
    /\ \E t \in timers :
         t.kind = "blocks" /\ t.live /\ t.rem + SinceBlocks = StatedTotalMs
    /\ CellsFallBefore(StatedTotalMs)

\* C21: the blocks -> done timer lasts ((cols-1)+(rows-1)) * stagger + drop
\* duration + buffer ms or one ms less, and for every cell (r, c) of the
\* grid its fall, which starts after (r+c) * stagger and lasts the drop
\* duration, has ended before the timer fires: while a block is falling the
\* timer has more time left than the block
C21_BlocksLandBeforeDone ==
  InBlocks =>
    /\ \E t \in timers :
         /\ t.kind = "blocks" /\ t.live
         /\ t.rem + SinceBlocks \in {StatedTotalMs - 1, StatedTotalMs}
         /\ \A f \in falls : f.rem < t.rem
    /\ CellsFallBefore(StatedTotalMs - 1)

\* on the narrow window every block has landed and the timer is still to fire
C21_Witness ==
  /\ InBlocks
  /\ win = <<320, 568>>
  /\ falls = {}
  /\ \E t \in timers : t.kind = "blocks" /\ t.live /\ t.rem > 0

\* C22: every overlay instance that is rendered and stays mounted
\* eventually stops covering the page (it renders nothing: phase 'done' or
\* shouldAnimate false), whatever its props and the reduced-motion
\* preference, when timers fire and animations end
C22_EventuallyUncovered == alive ~> (~alive \/ Shown = "null")

\* C23: the session flag is written only on entry to 'done': if the storage
\* key holds '1' or sessionPlayed is true, some instance of the session
\* reached 'done'; until then the key is unset and every mounted instance
\* animates, also after instances were unmounted before 'done'
C23_FlagOnlyAfterDone ==
  /\ (storage = "1" \/ sessionPlayed) => everDone
  /\ (alive /\ mounted /\ ~everDone) => (Sa /\ storage # "1" /\ Shown # "null")

\* an instance was unmounted during its price roll (its post-price timer is
\* still pending) and the next instance has started the animation again
C23_Witness ==
  /\ \E t \in timers : t.kind = "postPrice" /\ ~t.live
  /\ \E t \in timers : t.kind = "intro" /\ t.live
  /\ alive /\ mounted /\ ~forceReplay /\ ~everDone
  /\ Shown = "full"
  /\ storage # "1"

(* claims about the static server *)

HasDotDot(s) == \E i \in 1..(Len(s) - 1) : s[i] = "." /\ s[i + 1] = "."

\* the path of the request: req.url without its query string
RawPath(c) == splitFirst(conn[c].url, "?")

Decodes(c) == \A i \in 1..Len(RawPath(c)) : RawPath(c)[i] # "%zz"

\* the path with its escapes of "." decoded
DecodedPath(c) ==
  [i \in 1..Len(RawPath(c)) |-> IF RawPath(c)[i] = "%2e" THEN "." ELSE RawPath(c)[i]]

\* the handler of the request on c has run to its end or was given up
Settled(c) == conn[c].pc \in {"answered", "hung", "lost"}

\* the file on disk that the request on c names
Named(c) == stat(FilePath(conn[c].url), fileVer)

NamesFile(c) ==
  Decodes(c) /\ ~HasDotDot(DecodedPath(c)) /\ Named(c).ok /\ ~Named(c).dir

\* C11: a request whose decoded path (query string removed) contains '..'
\* is answered 403 and no file is stat-ed, read or streamed for it,
\* whatever the path names and whatever headers it carries
C11_TraversalForbidden ==
  \A c \in Conns :
    (conn[c].pc # "idle" /\ Decodes(c) /\ HasDotDot(DecodedPath(c))) =>
      /\ conn[c].pc = "answered"
      /\ conn[c].nresp = 1
      /\ conn[c].resp.status = 403
      /\ conn[c].fsOps = 0

\* an escaped '..' in front of an existing file, with all three headers set
C11_Witness ==
  /\ conn["c1"].url = <<"/", "%2e", "%2e", "/", "app", ".", "js">>
  /\ conn["c1"].range # << >>
  /\ conn["c1"].inm # << >>
  /\ conn["c1"].ae # << >>
  /\ conn["c1"].resp.status = 403

\* the request on c carries the validator of the file it names
Revalidates(c) == NamesFile(c) /\ conn[c].inm = ETag(Named(c))

\* C12 as stated: for every existing file, streamable or not, a request
\* whose If-None-Match equals the ETag of the file is answered 304 with an
\* empty body
C12_Original ==
  \A c \in Conns :
    (Settled(c) /\ Revalidates(c)) =>
      /\ conn[c].pc = "answered"
      /\ conn[c].resp.status = 304
      /\ conn[c].resp.body = NoBody

\* C12: for every existing file that is not streamable, a request whose
\* If-None-Match equals the ETag of the file is answered 304 with an empty
\* body
C12_NotModified ==
  \A c \in Conns :
    (Settled(c) /\ Revalidates(c) /\ extname(FilePath(conn[c].url)) \notin STREAMABLE) =>
      /\ conn[c].pc = "answered"
      /\ conn[c].nresp = 1
      /\ conn[c].resp.status = 304
      /\ conn[c].resp.body = NoBody

\* app.js revalidated with the validator the server wrote for it
C12_Witness ==
  /\ conn["c1"].url = P_app
  /\ conn["c1"].inm = <<"\"", "4", "0", "1", "-", "7", "0", "8", "\"">>
  /\ conn["c1"].ae = <<"br">>
  /\ conn["c1"].resp.status = 304

\* the request on c names a streamable file
NamesStreamable(c) == NamesFile(c) /\ extname(FilePath(conn[c].url)) \in STREAMABLE

\* the starts n within the file for which the Range header on c is 'bytes=n-'
OpenRangeStarts(c) ==
  {n \in RangeStarts :
     n < Named(c).size /\ conn[c].range = <<"bytes=">> \o toString10(n) \o <<"-">>}

\* C13: for a streamable file of size S and a Range header 'bytes=start-'
\* with 0 <= start < S, the response is 206 with the bytes from start to
\* end = min(start + 1048576 - 1, S - 1), Content-Range 'bytes start-end/S'
\* and Content-Length end - start + 1
C13_OpenEndedRange ==
  \A c \in Conns :
    (Settled(c) /\ NamesStreamable(c)) =>
      \A n \in OpenRangeStarts(c) :
        LET S == Named(c).size
            end == IF n + 1048576 - 1 < S - 1 THEN n + 1048576 - 1 ELSE S - 1
        IN  /\ conn[c].pc = "answered"
            /\ conn[c].nresp = 1
            /\ conn[c].resp.status = 206
            /\ conn[c].resp.body.kind = "bytes"
            /\ conn[c].resp.body.path = FilePath(conn[c].url)
            /\ conn[c].resp.body.from = n
            /\ conn[c].resp.body.to = end
            /\ conn[c].resp.contentRange =
                 [unit |-> "bytes", start |-> n, end |-> end, total |-> S]
            /\ conn[c].resp.contentLength = end - n + 1

\* the first megabyte of the video was asked for and sent
C13_Witness ==
  /\ conn["c1"].url = P_video
  /\ conn["c1"].range = <<"bytes=", "0", "-">>
  /\ conn["c1"].resp.status = 206
  /\ conn["c1"].resp.body.to = 1048575

\* C14: every request gets exactly one response, with a status in
\* {200, 206, 304, 403, 404}, and no request keeps the server from
\* answering: none is left without a response and the process stays up
C14_ExactlyOneResponse ==
  /\ srvUp
  /\ \A c \in Conns :
       /\ conn[c].pc \notin {"hung", "lost"}
       /\ conn[c].nresp <= 1
       /\ conn[c].pc = "answered" =>
            /\ conn[c].nresp = 1
            /\ conn[c].resp.status \in {200, 206, 304, 403, 404}

\* C15: a request for a path without '..' that names no existing readable
\* file is answered 404, and the cache holds nothing for that path
C15_MissingIs404 ==
  \A c \in Conns :
    (Settled(c) /\ ~HasDotDot(DecodedPath(c)) /\ ~NamesFile(c)) =>
      /\ conn[c].pc = "answered"
      /\ conn[c].resp.status = 404
      /\ \A e \in cache : Decodes(c) => e.key[1] # FilePath(conn[c].url)

\* the same for the requests whose path decodes
C15_DecodableMissingIs404 ==
  \A c \in Conns :
    (Settled(c) /\ Decodes(c) /\ ~HasDotDot(DecodedPath(c)) /\ ~NamesFile(c)) =>
      /\ conn[c].pc = "answered"
      /\ conn[c].resp.status = 404
      /\ \A e \in cache : e.key[1] # FilePath(conn[c].url)

\* Accept-Encoding lists the coding and does not refuse it with q=0
Accepts(ae, coding) ==
  \E i \in 1..Len(ae) : ae[i] = coding /\ ~(i < Len(ae) /\ ae[i + 1] = ";q=0")

\* C17: a 200 response has a Content-Encoding only for a compressible
\* extension and a size above 1024 bytes; then it is 'br' when
\* Accept-Encoding accepts brotli, 'gzip' when it accepts gzip and not
\* brotli, and none, with the plain body, otherwise
C17_ContentEncoding ==
  \A c \in Conns :
    (conn[c].pc = "answered" /\ conn[c].resp.status = 200 /\ NamesFile(c)) =>
      LET eligible == /\ extname(FilePath(conn[c].url)) \in COMPRESSIBLE
                      /\ Named(c).size > 1024
      IN  /\ conn[c].resp.encoding # "" => eligible
          /\ eligible => conn[c].resp.encoding =
                (IF Accepts(conn[c].ae, "br") THEN "br"
                 ELSE IF Accepts(conn[c].ae, "gzip") THEN "gzip"
                 ELSE "")
          /\ conn[c].resp.encoding = "" => conn[c].resp.body.kind \in {"plain", "bytes"}
          /\ conn[c].resp.encoding # "" => conn[c].resp.body.kind = conn[c].resp.encoding

\* C16: every cache entry under the key (path, modification time,
\* algorithm) holds the compression by that algorithm of the content the
\* file had at that modification time
C16_CacheEntryMatchesKey ==
  \A e \in cache :
    \E v \in 0..MaxVersion :
      /\ stat(e.key[1], v).ok
      /\ stat(e.key[1], v).mtime = e.key[2]
      /\ e.val = Compress(e.key[3], Content(e.key[1], v))

====
